---- MODULE Spec2Model ----
(***************************************************************************)
(* Job Application Tracker (src/app.py): the credential file, the per-user *)
(* job files and the Streamlit sessions that read and write them.          *)
(*                                                                         *)
(* Text is a TLA+ string.  A DataFrame is the sequence of its rows; a row  *)
(* is a record with the five columns of the application.  A file is        *)
(* absent, holds a JSON document, or holds text that is no JSON document   *)
(* (what open(.., "w") leaves until the content is written).               *)
(***************************************************************************)
EXTENDS Integers, Sequences, FiniteSets, TLC

VARIABLES
    users_file,      \* the content of USERS_FILE
    data_files,      \* path -> content, one path per get_user_data_file(u)
    session_state,   \* session -> st.session_state (and the widgets' values)
    pc,              \* session -> the file write its running script is in
    shown,           \* session -> what its last script run left on the page
    clock,           \* the value datetime.now() returns next
    persisted,       \* username -> the frame the last save_data(u, ..) was given
    created          \* username -> the hash of each account whose registration
                     \* ended with "Account created! Please login."

vars == <<users_file, data_files, session_state, pc, shown, clock, persisted, created>>

----------------------------------------------------------------------------
(* Bounds of the model. *)

\* Rows a frame may hold before Add and the editor's "add row" are disabled.
MaxRows == 2
\* Readings of datetime.now() (one per created account).
MaxClock == 3

----------------------------------------------------------------------------
(* Values. *)

\* Python's None as a text value of the session (username, display_name).
None == "<None>"
\* None in an "Applied Date" cell (a date is <<year, month, day>>).
NoDate == <<>>

Sessions == {"s1", "s2"}

USERS_FILE == "users.json"

STATUS_OPTIONS ==
    <<"Applied", "Interview Scheduled", "Interview Done",
      "Offer Received", "Rejected", "Withdrawn">>

StatusSet == {STATUS_OPTIONS[i] : i \in DOMAIN STATUS_OPTIONS}

\* File contents.
NoFile == [kind |-> "absent", json |-> <<>>]
Truncated == [kind |-> "partial", json |-> <<>>]
JsonFile(v) == [kind |-> "json", json |-> v]

\* pd.DataFrame(columns=[...]): the frame with no rows.
EmptyFrame == <<>>

----------------------------------------------------------------------------
(* Inputs the forms and widgets are given. *)

Usernames == {"alice", "bob"}
UsernameInputs == Usernames \cup {""}

\* What the forms, the widgets and the data editor are given, per
\* specification: login_page's forms (usernames .. login_passwords), the
\* filter's widgets (queries, filters), the Add form (companies .. packages)
\* and the cells the editor's user may set (edit_statuses, edit_dates).
TrackerInputs ==
    [usernames |-> Usernames,
     display_names |-> {"Alice"},
     passwords |-> {"pass1234"},
     login_passwords |-> {"pass1234"},
     queries |-> {""},
     filters |-> {"All", "Applied"},
     companies |-> {"", "Acme"},
     titles |-> {"Engineer"},
     statuses |-> {"Applied", "Interview Scheduled"},
     dates |-> {<<2024, 1, 10>>},
     packages |-> {""},
     edit_statuses |-> {"Applied", "Interview Scheduled"},
     edit_dates |-> {<<2024, 1, 10>>, NoDate}]

\* The dashboard of one user: every status, two companies, search texts
\* with letters of either case and with a character that is special in a
\* regular expression; in the editor the user also tries a status that is
\* no option and an empty company name.
DashboardInputs ==
    [TrackerInputs EXCEPT
        !.usernames = {"alice"},
        !.queries = {"", "aCm", "."},
        !.filters = {"All", "Applied", "Offer Received"},
        !.companies = {"", "Acme", "Initech"},
        !.statuses = StatusSet,
        !.edit_statuses = {"Interview Scheduled", "Interview Done", "Ghosted"},
        !.edit_dates = {<<2024, 1, 10>>}]

\* Two sessions of one account.
SharedInputs ==
    [TrackerInputs EXCEPT
        !.usernames = {"alice"},
        !.login_passwords = {"pass1234"},
        !.companies = {"Acme"},
        !.titles = {"Engineer"},
        !.edit_dates = {<<2024, 1, 10>>}]

\* Two sessions of one account whose file reads and writes interleave.
ThreadInputs ==
    [TrackerInputs EXCEPT
        !.usernames = {"alice"},
        !.login_passwords = {"pass1234"},
        !.companies = {"Acme"},
        !.titles = {"Engineer"},
        !.statuses = {"Applied"},
        !.edit_statuses = {"Applied"},
        !.edit_dates = {<<2024, 1, 10>>}]

\* One session whose writes may raise.
FaultInputs ==
    [TrackerInputs EXCEPT
        !.usernames = {"alice"},
        !.login_passwords = {"pass1234"},
        !.edit_dates = {<<2024, 1, 10>>}]

AccountInputs ==
    [TrackerInputs EXCEPT
        !.usernames = UsernameInputs,
        !.display_names = {"", "Alice"},
        !.passwords = {"abc", "pass1234", "word5678"},
        !.login_passwords = {"", "pass1234", "word5678"}]

----------------------------------------------------------------------------
(* hash_password *)

hash_password(password) == "sha256(" \o password \o ")"

----------------------------------------------------------------------------
(* Dates as text: str(date) and pd.to_datetime(text).dt.date *)

Digits == <<"0", "1", "2", "3", "4", "5", "6", "7", "8", "9">>

IsDigit(c) == \E i \in DOMAIN Digits : Digits[i] = c

DigitValue(c) == (CHOOSE i \in DOMAIN Digits : Digits[i] = c) - 1

Pad(n, width) ==
    LET s == ToString(n)
        zeros == [k \in 0..3 |-> SubSeq("000", 1, k)]
    IN  IF Len(s) >= width THEN s ELSE zeros[width - Len(s)] \o s

\* date.isoformat(), which str(date) returns
isoformat(d) == Pad(d[1], 4) \o "-" \o Pad(d[2], 2) \o "-" \o Pad(d[3], 2)

\* Series.astype(str) on a cell of the "Applied Date" column
astype_str(cell) == IF cell = NoDate THEN "None" ELSE isoformat(cell)

Char(s, i) == SubSeq(s, i, i)

RECURSIVE ParseInt(_, _, _)
ParseInt(s, from, to) ==
    IF from > to THEN 0
    ELSE 10 * ParseInt(s, from, to - 1) + DigitValue(Char(s, to))

DaysIn(y, m) ==
    IF m \in {4, 6, 9, 11} THEN 30
    ELSE IF m # 2 THEN 31
    ELSE IF (y % 4 = 0 /\ y % 100 # 0) \/ y % 400 = 0 THEN 29 ELSE 28

\* Whether pd.to_datetime reads `s` as a calendar date written by astype_str.
IsIsoDate(s) ==
    /\ Len(s) = 10
    /\ Char(s, 5) = "-" /\ Char(s, 8) = "-"
    /\ \A i \in {1, 2, 3, 4, 6, 7, 9, 10} : IsDigit(Char(s, i))
    /\ LET y == ParseInt(s, 1, 4)
           m == ParseInt(s, 6, 7)
           d == ParseInt(s, 9, 10)
       IN  m \in 1..12 /\ d \in 1..DaysIn(y, m)

\* pd.to_datetime(s).date() for a text it can read
to_datetime(s) == <<ParseInt(s, 1, 4), ParseInt(s, 6, 7), ParseInt(s, 9, 10)>>

----------------------------------------------------------------------------
(* load_users / save_users *)

\* What a read of a file returns: err is "" or the exception raised.
Ok(v) == [err |-> "", value |-> v]
Raised(e) == [err |-> e, value |-> <<>>]

\* json.load of an open file
json_load(file) ==
    IF file.kind = "json" THEN Ok(file.json) ELSE Raised("JSONDecodeError")

load_users(file) ==
    IF file.kind # "absent" THEN json_load(file) ELSE Ok(<<>>)

----------------------------------------------------------------------------
(* get_user_data_file / load_data / save_data *)

\* A faulty get_user_data_file: the path does not depend on the username.
shared_data_file(username) == "jobs_.json"

get_user_data_file(username) == "jobs_" \o username \o ".json"

DataPaths == {get_user_data_file(u) : u \in Usernames}

\* df["Applied Date"] = pd.to_datetime(df["Applied Date"]).dt.date
ParseDates(data) ==
    IF \A i \in DOMAIN data : IsIsoDate(data[i].Applied_Date)
    THEN Ok([i \in DOMAIN data |->
                [data[i] EXCEPT !.Applied_Date = to_datetime(@)]])
    ELSE Raised("ValueError")

load_data(files, username) ==
    LET file == files[get_user_data_file(username)]
    IN  IF file.kind # "absent"
        THEN LET data == json_load(file)
             IN  IF data.err # "" THEN data
                 ELSE IF data.value # <<>> THEN ParseDates(data.value)
                 ELSE Ok(EmptyFrame)
        ELSE Ok(EmptyFrame)

\* The document save_data writes: df.to_dict(orient="records") with the
\* "Applied Date" column as text.
save_data(df) ==
    [i \in DOMAIN df |-> [df[i] EXCEPT !.Applied_Date = astype_str(@)]]

----------------------------------------------------------------------------
(* The filter of main_app (lines 270-281) *)

UpperCase == "ABCDEFGHIJKLMNOPQRSTUVWXYZ"
LowerCase == "abcdefghijklmnopqrstuvwxyz"

UpperLetters == {Char(UpperCase, i) : i \in 1..Len(UpperCase)}

ToLower ==
    [c \in UpperLetters |->
        Char(LowerCase, CHOOSE i \in 1..Len(UpperCase) : Char(UpperCase, i) = c)]

\* re.IGNORECASE on one character
casefold(c) == IF c \in UpperLetters THEN ToLower[c] ELSE c

\* Series.str.contains(pat, case=False, na=False) on one cell: `pat` is a
\* regular expression, of which the literal characters and "." are modelled.
str_contains(text, pat) ==
    \E i \in 1..(Len(text) - Len(pat) + 1) :
        \A k \in 1..Len(pat) :
            \/ Char(pat, k) = "."
            \/ casefold(Char(text, i + k - 1)) = casefold(Char(pat, k))

SearchMask(row, search_query) ==
    \/ str_contains(row.Company_Name, search_query)
    \/ str_contains(row.Job_Title, search_query)

filtered_df(jobs_df, search_query, status_filter) ==
    LET searched ==
            IF search_query # ""
            THEN SelectSeq(jobs_df, LAMBDA row : SearchMask(row, search_query))
            ELSE jobs_df
    IN  IF status_filter # "All"
        THEN SelectSeq(searched, LAMBDA row : row.Status = status_filter)
        ELSE searched

\* The table the data editor is given: what the session's filter leaves.
View(ss) == filtered_df(ss.jobs_df, ss.search_query, ss.status_filter)

----------------------------------------------------------------------------
(* The statistics of main_app (lines 288-299) *)

\* Series.str.contains(pat, na=False) on one cell: case is significant.
str_contains_case(text, pat) ==
    \E i \in 1..(Len(text) - Len(pat) + 1) :
        \A k \in 1..Len(pat) :
            \/ Char(pat, k) = "."
            \/ Char(text, i + k - 1) = Char(pat, k)

total_apps(jobs_df) == Len(jobs_df)

\* A faulty interview counter: only one of the two interview statuses.
interview_scheduled_count(jobs_df) ==
    Len(SelectSeq(jobs_df, LAMBDA row : row.Status = "Interview Scheduled"))

interview_count(jobs_df) ==
    Len(SelectSeq(jobs_df,
                  LAMBDA row : str_contains_case(row.Status, "Interview")))

offers(jobs_df) ==
    Len(SelectSeq(jobs_df, LAMBDA row : row.Status = "Offer Received"))

pending(jobs_df) ==
    Len(SelectSeq(jobs_df, LAMBDA row : row.Status = "Applied"))

\* Faulty statistics: computed over the filtered frame.
MetricsOfView(ss) ==
    <<total_apps(View(ss)), interview_count(View(ss)),
      offers(View(ss)), pending(View(ss))>>

\* The four st.metric values a script run of main_app draws.
Metrics(ss) ==
    <<total_apps(ss.jobs_df), interview_count(ss.jobs_df),
      offers(ss.jobs_df), pending(ss.jobs_df)>>

----------------------------------------------------------------------------
(* The data editor (lines 313-346): the tables it can return for a table  *)
(* it is given.  Company, title and status are required columns, status   *)
(* is one of STATUS_OPTIONS; the date column is not required, so a date   *)
(* cell may be emptied and an added row may have none.                    *)

NewRow(company, title, status, applied, package) ==
    [Company_Name |-> company, Job_Title |-> title, Status |-> status,
     Applied_Date |-> applied, Package |-> package]

RemoveAt(df, i) == SubSeq(df, 1, i - 1) \o SubSeq(df, i + 1, Len(df))

\* A faulty column configuration: no column is required and the status
\* column takes any text.
EditorAcceptsAll(row) == TRUE

\* What the column configuration lets the user submit in a row: the
\* required text columns (lines 316-325) filled in and the status one of
\* the selectbox's options (lines 326-331).
EditorAccepts(row) ==
    /\ row.Company_Name # ""
    /\ row.Job_Title # ""
    /\ row.Status \in StatusSet

\* The rows the user may try to add; the editor keeps those it accepts.
EditorRows(in) ==
    {row \in {NewRow(c, t, st, d, p) :
                 c \in in.companies, t \in in.titles,
                 st \in in.edit_statuses, d \in in.edit_dates,
                 p \in in.packages} :
        EditorAccepts(row)}

data_editor(table, in) ==
    {table}
    \cup {RemoveAt(table, i) : i \in DOMAIN table}
    \cup {edited \in {[table EXCEPT ![i].Status = st] :
                         i \in DOMAIN table, st \in in.edit_statuses} :
              \A i \in DOMAIN edited : EditorAccepts(edited[i])}
    \cup {[table EXCEPT ![i].Applied_Date = d] :
              i \in DOMAIN table, d \in in.edit_dates}
    \cup (IF Len(table) < MaxRows
          THEN {Append(table, row) : row \in EditorRows(in)}
          ELSE {})

----------------------------------------------------------------------------
(* Session state *)

\* A session after main() has run once: logged_in False, no other key.
NewSession ==
    [logged_in |-> FALSE, username |-> None, display_name |-> None,
     has_jobs_df |-> FALSE, jobs_df |-> EmptyFrame, current_user |-> None,
     show_confirm |-> FALSE, search_query |-> "", status_filter |-> "All"]

Idle == [at |-> "idle", target |-> "", content |-> <<>>, after |-> "", subject |-> ""]

Init ==
    /\ users_file = NoFile
    /\ data_files = [p \in DataPaths |-> NoFile]
    /\ session_state = [s \in Sessions |-> NewSession]
    /\ pc = [s \in Sessions |-> Idle]
    /\ shown = [s \in Sessions |-> ""]
    /\ clock = 1
    /\ persisted = [u \in Usernames |-> EmptyFrame]
    /\ created = <<>>

\* A faulty initialisation: the frame is loaded for the identity the session
\* recorded last (current_user), when it has one, not for the one logged in.
MainAppInitStale(ss, files) ==
    IF ~ss.has_jobs_df \/ ss.current_user # ss.username
    THEN LET owner == IF ss.current_user # None THEN ss.current_user
                      ELSE ss.username
             loaded == load_data(files, owner)
         IN  IF loaded.err # ""
             THEN [ss |-> ss, err |-> loaded.err]
             ELSE [ss |-> [ss EXCEPT !.jobs_df = loaded.value,
                                     !.has_jobs_df = TRUE,
                                     !.current_user = ss.username],
                   err |-> ""]
    ELSE [ss |-> ss, err |-> ""]

\* A faulty initialisation: the frame is loaded from the store on every
\* script run, so a handler works on the stored collection, not on the
\* session's own snapshot.
MainAppInitReload(ss, files) ==
    LET loaded == load_data(files, ss.username)
    IN  IF loaded.err # ""
        THEN [ss |-> ss, err |-> loaded.err]
        ELSE [ss |-> [ss EXCEPT !.jobs_df = loaded.value,
                                !.has_jobs_df = TRUE,
                                !.current_user = ss.username],
              err |-> ""]

\* "Initialize session state for this user" (lines 209-212): the session
\* after it, and the exception load_data raised, if any.
MainAppInit(ss, files) ==
    IF ~ss.has_jobs_df \/ ss.current_user # ss.username
    THEN LET loaded == load_data(files, ss.username)
         IN  IF loaded.err # ""
             THEN [ss |-> ss, err |-> loaded.err]
             ELSE [ss |-> [ss EXCEPT !.jobs_df = loaded.value,
                                     !.has_jobs_df = TRUE,
                                     !.current_user = ss.username],
                   err |-> ""]
    ELSE [ss |-> ss, err |-> ""]

\* A faulty Logout: line 204 is missing and the frame stays in the session.
LoggedOutKeepsFrame(ss) ==
    [ss EXCEPT !.logged_in = FALSE, !.username = None, !.display_name = None,
               !.search_query = "", !.status_filter = "All"]

\* A faulty Logout: line 201 is missing and logged_in stays True.
LoggedOutStillIn(ss) ==
    [ss EXCEPT !.username = None, !.display_name = None,
               !.has_jobs_df = FALSE, !.jobs_df = EmptyFrame,
               !.search_query = "", !.status_filter = "All"]

\* The session once the Logout button's handler has run (lines 200-205);
\* the widgets of main_app are not drawn by login_page and lose their values.
LoggedOut(ss) ==
    [ss EXCEPT !.logged_in = FALSE, !.username = None, !.display_name = None,
               !.has_jobs_df = FALSE, !.jobs_df = EmptyFrame,
               !.search_query = "", !.status_filter = "All"]

\* The session once the login form has accepted `username` (lines 148-150).
LoggedIn(ss, username, users) ==
    [ss EXCEPT !.logged_in = TRUE, !.username = username,
               !.display_name = users[username].display_name]

\* The script of a session runs main_app with its page drawn: the buttons
\* and forms of main_app exist only once the initial load has succeeded.
Ready(s) ==
    /\ pc[s] = Idle
    /\ session_state[s].logged_in
    /\ session_state[s].has_jobs_df

Show(s, text) == shown' = [shown EXCEPT ![s] = text]

SetSession(s, ss) == session_state' = [session_state EXCEPT ![s] = ss]

----------------------------------------------------------------------------
(* Writing a file: open(path, "w"), json.dump, close *)

WriteFile(target, file) ==
    IF target = USERS_FILE
    THEN users_file' = file /\ UNCHANGED data_files
    ELSE data_files' = [data_files EXCEPT ![target] = file] /\ UNCHANGED users_file

\* What the handler does once its write has returned.
AfterWrite(ss, after) ==
    IF after = "confirmed" THEN [ss EXCEPT !.show_confirm = FALSE] ELSE ss

ShownAfter(after) ==
    IF after = "created" THEN "Account created! Please login." ELSE ""

\* The accounts reported created, once the handler's write has returned.
CreatedAfter(after, subject, content) ==
    IF after = "created"
    THEN [u \in DOMAIN created \cup {subject} |->
             IF u = subject THEN content[subject].password ELSE created[u]]
    ELSE created

\* A handler, its session now `ss`, calls save_data or save_users for
\* `subject` (a username).  With io = "atomic" the write is one step with the
\* rest of the handler; with io = "steps" the script goes on in OpenFile,
\* WriteContent and CloseFile.
Save(s, io, ss, subject, target, content, after) ==
    IF io = "atomic"
    THEN /\ WriteFile(target, JsonFile(content))
         /\ SetSession(s, AfterWrite(ss, after))
         /\ Show(s, ShownAfter(after))
         /\ created' = CreatedAfter(after, subject, content)
         /\ UNCHANGED pc
    ELSE /\ SetSession(s, ss)
         /\ pc' = [pc EXCEPT ![s] = [at |-> "open", target |-> target,
                                     content |-> content, after |-> after,
                                     subject |-> subject]]
         /\ Show(s, "")
         /\ UNCHANGED <<users_file, data_files, created>>

\* open(path, "w"): the file exists and is empty.
OpenFile(s) ==
    /\ pc[s].at = "open"
    /\ WriteFile(pc[s].target, Truncated)
    /\ pc' = [pc EXCEPT ![s].at = "write"]
    /\ UNCHANGED <<session_state, shown, clock, persisted, created>>

\* open raises OSError: the script run ends, the file is as it was.
OpenFails(s) ==
    /\ pc[s].at = "open"
    /\ pc' = [pc EXCEPT ![s] = Idle]
    /\ Show(s, "OSError")
    /\ UNCHANGED <<users_file, data_files, session_state, clock, persisted, created>>

\* json.dump: the document is in the file.
WriteContent(s) ==
    /\ pc[s].at = "write"
    /\ WriteFile(pc[s].target, JsonFile(pc[s].content))
    /\ pc' = [pc EXCEPT ![s].at = "close"]
    /\ UNCHANGED <<session_state, shown, clock, persisted, created>>

\* The write raises OSError: the script run ends, the file stays as open left it.
WriteFails(s) ==
    /\ pc[s].at = "write"
    /\ pc' = [pc EXCEPT ![s] = Idle]
    /\ Show(s, "OSError")
    /\ UNCHANGED <<users_file, data_files, session_state, clock, persisted, created>>

\* The with block ends and the handler continues to its end.
CloseFile(s) ==
    /\ pc[s].at = "close"
    /\ SetSession(s, AfterWrite(session_state[s], pc[s].after))
    /\ Show(s, ShownAfter(pc[s].after))
    /\ pc' = [pc EXCEPT ![s] = Idle]
    /\ created' = CreatedAfter(pc[s].after, pc[s].subject, pc[s].content)
    /\ UNCHANGED <<users_file, data_files, clock, persisted>>

----------------------------------------------------------------------------
(* login_page *)

\* A faulty check of line 175: no username is ever taken.
UsernameNeverExists(users, new_username) == FALSE

\* Whether the username is taken (line 175).
UsernameExists(users, new_username) == new_username \in DOMAIN users

\* The Register form submitted (lines 167-186).
RegisterSubmit(s, io, new_username, new_display_name, new_password, confirm_password) ==
    /\ pc[s] = Idle
    /\ ~session_state[s].logged_in
    /\ UNCHANGED persisted
    /\ IF new_username # "" /\ new_password # "" /\ new_display_name # ""
       THEN IF new_password # confirm_password
            THEN /\ Show(s, "Passwords do not match")
                 /\ UNCHANGED <<users_file, data_files, session_state, pc, clock, created>>
            ELSE IF Len(new_password) < 4
            THEN /\ Show(s, "Password must be at least 4 characters")
                 /\ UNCHANGED <<users_file, data_files, session_state, pc, clock, created>>
            ELSE LET users == load_users(users_file)
                 IN  IF users.err # ""
                     THEN /\ Show(s, users.err)
                          /\ UNCHANGED <<users_file, data_files, session_state, pc, clock, created>>
                     ELSE IF UsernameExists(users.value, new_username)
                     THEN /\ Show(s, "Username already exists")
                          /\ UNCHANGED <<users_file, data_files, session_state, pc, clock, created>>
                     ELSE /\ clock < MaxClock
                          /\ clock' = clock + 1
                          /\ Save(s, io, session_state[s], new_username, USERS_FILE,
                                  [u \in DOMAIN users.value \cup {new_username} |->
                                      IF u = new_username
                                      THEN [password |-> hash_password(new_password),
                                            display_name |-> new_display_name,
                                            created_at |-> clock]
                                      ELSE users.value[u]],
                                  "created")
       ELSE /\ Show(s, "Please fill in all fields")
            /\ UNCHANGED <<users_file, data_files, session_state, pc, clock, created>>

Register(s, io, in) ==
    \E new_username \in in.usernames, new_display_name \in in.display_names,
       new_password \in in.passwords, confirm_password \in in.passwords :
        RegisterSubmit(s, io, new_username, new_display_name, new_password,
                       confirm_password)

\* A faulty check of line 147: the password is not compared.
UsernameMatches(users, username, password) == username \in DOMAIN users

\* Whether the login form accepts the pair (line 147).
CredentialsMatch(users, username, password) ==
    /\ username \in DOMAIN users
    /\ users[username].password = hash_password(password)

\* The Login form submitted (lines 144-156); on success st.rerun() runs
\* main_app, which loads the user's frame.
LoginSubmit(s, username, password) ==
    /\ pc[s] = Idle
    /\ ~session_state[s].logged_in
    /\ UNCHANGED <<users_file, data_files, pc, clock, persisted, created>>
    /\ IF username # "" /\ password # ""
       THEN LET users == load_users(users_file)
            IN  IF users.err # ""
                THEN Show(s, users.err) /\ UNCHANGED session_state
                ELSE IF CredentialsMatch(users.value, username, password)
                THEN LET run == MainAppInit(
                                    LoggedIn(session_state[s], username, users.value),
                                    data_files)
                     IN  SetSession(s, run.ss) /\ Show(s, run.err)
                ELSE /\ Show(s, "Invalid username or password")
                     /\ UNCHANGED session_state
       ELSE /\ Show(s, "Please enter both username and password")
            /\ UNCHANGED session_state

Login(s, in) ==
    \E username \in in.usernames, password \in in.login_passwords :
        LoginSubmit(s, username, password)

----------------------------------------------------------------------------
(* main_app *)

\* The Logout button (lines 200-205).
Logout(s) ==
    /\ pc[s] = Idle
    /\ session_state[s].logged_in
    /\ SetSession(s, LoggedOut(session_state[s]))
    /\ Show(s, "")
    /\ UNCHANGED <<users_file, data_files, pc, clock, persisted, created>>

\* The "Add New Application" form submitted (lines 227-241).
AddSubmit(s, io, company_name, job_title, status, applied_date, package) ==
    /\ Ready(s)
    /\ UNCHANGED clock
    /\ LET run == MainAppInit(session_state[s], data_files)
           username == session_state[s].username
       IN  IF run.err # ""
           THEN /\ SetSession(s, run.ss) /\ Show(s, run.err)
                /\ UNCHANGED <<users_file, data_files, pc, persisted, created>>
           ELSE IF company_name # "" /\ job_title # ""
           THEN LET new_row == NewRow(company_name, job_title, status,
                                      applied_date, package)
                    jobs_df == Append(run.ss.jobs_df, new_row)
                IN  /\ Len(run.ss.jobs_df) < MaxRows
                    /\ persisted' = [persisted EXCEPT ![username] = jobs_df]
                    /\ Save(s, io, [run.ss EXCEPT !.jobs_df = jobs_df], username,
                            get_user_data_file(username), save_data(jobs_df), "rerun")
           ELSE /\ SetSession(s, run.ss)
                /\ Show(s, "Please fill in Company Name and Job Title")
                /\ UNCHANGED <<users_file, data_files, pc, persisted, created>>

Add(s, io, in) ==
    \E company_name \in in.companies, job_title \in in.titles,
       status \in in.statuses, applied_date \in in.dates,
       package \in in.packages :
        AddSubmit(s, io, company_name, job_title, status, applied_date, package)

\* The search box or the status selector changed (lines 252-263).
SetFilter(s, in) ==
    /\ Ready(s)
    /\ \E search_query \in in.queries, status_filter \in in.filters :
        /\ <<search_query, status_filter>> #
               <<session_state[s].search_query, session_state[s].status_filter>>
        /\ LET run == MainAppInit(session_state[s], data_files)
           IN  /\ SetSession(s, [run.ss EXCEPT !.search_query = search_query,
                                               !.status_filter = status_filter])
               /\ Show(s, run.err)
    /\ UNCHANGED <<users_file, data_files, pc, clock, persisted, created>>

\* The "Refresh Data" button (lines 265-268).
Refresh(s) ==
    /\ Ready(s)
    /\ LET run == MainAppInit(session_state[s], data_files)
           loaded == load_data(data_files, session_state[s].username)
       IN  IF run.err # ""
           THEN SetSession(s, run.ss) /\ Show(s, run.err)
           ELSE IF loaded.err # ""
           THEN SetSession(s, run.ss) /\ Show(s, loaded.err)
           ELSE /\ SetSession(s, [run.ss EXCEPT !.jobs_df = loaded.value])
                /\ Show(s, "")
    /\ UNCHANGED <<users_file, data_files, pc, clock, persisted, created>>

\* The editor and its buttons are drawn (line 306: filtered_df is not empty).
EditorDrawn(s) == Ready(s) /\ View(session_state[s]) # EmptyFrame

\* The "Save Changes" button with the editor returning edited_df (lines 352-356).
SaveChangesWith(s, io, edited_df) ==
    /\ EditorDrawn(s)
    /\ UNCHANGED clock
    /\ LET username == session_state[s].username
       IN  /\ persisted' = [persisted EXCEPT ![username] = edited_df]
           /\ Save(s, io, [session_state[s] EXCEPT !.jobs_df = edited_df], username,
                   get_user_data_file(username), save_data(edited_df), "rerun")

SaveChanges(s, io, in) ==
    \E edited_df \in data_editor(View(session_state[s]), in) :
        SaveChangesWith(s, io, edited_df)

\* The "Clear All" button (lines 359-360).
ClearAll(s) ==
    /\ EditorDrawn(s)
    /\ SetSession(s, [session_state[s] EXCEPT !.show_confirm = TRUE])
    /\ Show(s, "")
    /\ UNCHANGED <<users_file, data_files, pc, clock, persisted, created>>

\* A faulty line 363: the confirmation's buttons are drawn with the editor,
\* whether or not a confirmation is pending.
ConfirmAlwaysDrawn(s) == EditorDrawn(s)

\* The confirmation's buttons are drawn (line 363).
ConfirmDrawn(s) == EditorDrawn(s) /\ session_state[s].show_confirm

\* "Yes, Delete All" (lines 367-371).
YesDeleteAll(s, io) ==
    /\ ConfirmDrawn(s)
    /\ UNCHANGED clock
    /\ LET username == session_state[s].username
       IN  /\ persisted' = [persisted EXCEPT ![username] = EmptyFrame]
           /\ Save(s, io, [session_state[s] EXCEPT !.jobs_df = EmptyFrame], username,
                   get_user_data_file(username), save_data(EmptyFrame), "confirmed")

\* "Cancel" (lines 373-375).
Cancel(s) ==
    /\ ConfirmDrawn(s)
    /\ SetSession(s, [session_state[s] EXCEPT !.show_confirm = FALSE])
    /\ Show(s, "")
    /\ UNCHANGED <<users_file, data_files, pc, clock, persisted, created>>

----------------------------------------------------------------------------
(* Specifications *)

\* One script run of session s, from the widget that triggered it to its end.
Handler(s, io, in) ==
    \/ Register(s, io, in)
    \/ Login(s, in)
    \/ Logout(s)
    \/ Add(s, io, in)
    \/ SetFilter(s, in)
    \/ Refresh(s)
    \/ SaveChanges(s, io, in)
    \/ ClearAll(s)
    \/ YesDeleteAll(s, io)
    \/ Cancel(s)

\* One interactive user: every script run ends before the next starts.
Next == Handler("s1", "atomic", TrackerInputs)

Spec == Init /\ [][Next]_vars

\* The accounts: two sessions at login_page, one script run at a time.
NextAccounts ==
    \E s \in Sessions :
        \/ Register(s, "atomic", AccountInputs)
        \/ Login(s, AccountInputs)
        \/ Logout(s)

SpecAccounts == Init /\ [][NextAccounts]_vars

\* Two sessions, one script run at a time.
NextShared == \E s \in Sessions : Handler(s, "atomic", SharedInputs)

SpecShared == Init /\ [][NextShared]_vars

\* The steps of a write, and the ways it raises.
FileSteps(s) == OpenFile(s) \/ WriteContent(s) \/ CloseFile(s)

FileFaults(s) == OpenFails(s) \/ WriteFails(s)

\* One interactive user whose writes may raise OSError.
NextFaults ==
    \/ Handler("s1", "steps", FaultInputs)
    \/ FileSteps("s1")
    \/ FileFaults("s1")

SpecFaults == Init /\ [][NextFaults]_vars

\* Two sessions, each script in its own thread: the steps of one session's
\* write interleave with the other's script runs.
NextThreads ==
    \E s \in Sessions :
        \/ Handler(s, "steps", ThreadInputs)
        \/ FileSteps(s)

SpecThreads == Init /\ [][NextThreads]_vars

\* Two sessions at login_page, each script in its own thread: load_users
\* and the steps of save_users of the two interleave.
NextRegistrations ==
    \E s \in Sessions :
        \/ Register(s, "steps", TrackerInputs)
        \/ Login(s, TrackerInputs)
        \/ Logout(s)
        \/ FileSteps(s)

SpecRegistrations == Init /\ [][NextRegistrations]_vars

\* alice, registered, has logged in for the first time: her page is drawn
\* over an empty collection.
InitDashboard ==
    /\ users_file = JsonFile([u \in {"alice"} |->
                         [password |-> hash_password("pass1234"),
                          display_name |-> "Alice", created_at |-> 1]])
    /\ data_files = [p \in DataPaths |-> NoFile]
    /\ session_state =
           [s \in Sessions |->
               IF s = "s1"
               THEN MainAppInit(LoggedIn(NewSession, "alice", users_file.json),
                                data_files).ss
               ELSE NewSession]
    /\ pc = [s \in Sessions |-> Idle]
    /\ shown = [s \in Sessions |-> ""]
    /\ clock = 2
    /\ persisted = [u \in Usernames |-> EmptyFrame]
    /\ created = [u \in {"alice"} |-> hash_password("pass1234")]

\* The filter, the add form, the editor and Refresh of one logged-in user.
NextDashboard ==
    \/ SetFilter("s1", DashboardInputs)
    \/ Add("s1", "atomic", DashboardInputs)
    \/ SaveChanges("s1", "atomic", DashboardInputs)
    \/ Refresh("s1")

SpecDashboard == InitDashboard /\ [][NextDashboard]_vars


----------------------------------------------------------------------------
(* Properties *)

\* What a fresh session of `u` gets from load_data on the store as it is.
Loaded(u) == load_data(data_files, u)

\* C1: whatever add, Save Changes and confirmed Clear All steps a session
\* of u has performed, load_data(u) on the store they left returns exactly
\* the records the last save_data(u, ...) was given: same records, same
\* order, same applied dates, and the empty frame when that was empty.
RoundTrip ==
    \A u \in Usernames :
        data_files[get_user_data_file(u)].kind # "absent"
            => Loaded(u) = Ok(persisted[u])

\* C2: whenever main_app has run past its initialisation for the logged-in
\* username u, the session records u as the owner of its snapshot and the
\* snapshot is what load_data(u) and the mutations made as u left, never a
\* frame loaded or edited under another username.
SnapshotBinding ==
    \A s \in Sessions :
        Ready(s) =>
            /\ session_state[s].current_user = session_state[s].username
            /\ session_state[s].jobs_df = persisted[session_state[s].username]

\* bob's page is drawn in a session that has worked as alice before, and
\* the two collections differ.
SwitchedUser ==
    /\ Ready("s1")
    /\ session_state["s1"].username = "bob"
    /\ persisted["alice"] # EmptyFrame
    /\ persisted["alice"] # persisted["bob"]
    /\ session_state["s1"].jobs_df = persisted["bob"]

\* C3: a step changes the data file of a username v only when the session
\* taking it is logged in as v, and what it leaves in the file is the
\* collection persisted under v: no step of a session of u touches the
\* collection of another username, and load_data reads only the owner's.
UserIsolation ==
    [][\A v \in Usernames :
          data_files'[get_user_data_file(v)] # data_files[get_user_data_file(v)]
              => /\ \E s \in Sessions :
                       /\ session_state[s].logged_in
                       /\ session_state[s].username = v
                       /\ session_state'[s].username = v
                 /\ data_files'[get_user_data_file(v)]
                        = JsonFile(save_data(persisted'[v]))
                 /\ \A u \in Usernames \ {v} :
                       /\ persisted'[u] = persisted[u]
                       /\ get_user_data_file(u) # get_user_data_file(v)]_vars

\* Both usernames have a stored collection, and they differ.
TwoCollections ==
    /\ Loaded("alice").err = "" /\ Loaded("alice").value # EmptyFrame
    /\ Loaded("bob").err = "" /\ Loaded("bob").value # EmptyFrame
    /\ Loaded("alice") # Loaded("bob")

\* C4: the Clear All button only sets the pending flag, Cancel only resets
\* it, and both leave the stored collection and the snapshot as they were;
\* "Yes, Delete All" is taken only while the flag is set, resets it, and
\* leaves an empty snapshot and a store from which load_data returns the
\* empty frame.
TwoStepClearAll ==
    [][\A s \in Sessions :
          LET before == session_state[s]
              after == session_state'[s]
          IN  /\ ClearAll(s) =>
                    /\ after.show_confirm
                    /\ after.jobs_df = before.jobs_df
                    /\ data_files' = data_files
              /\ Cancel(s) =>
                    /\ before.show_confirm /\ ~after.show_confirm
                    /\ after.jobs_df = before.jobs_df
                    /\ data_files' = data_files
              /\ YesDeleteAll(s, "atomic") =>
                    /\ before.show_confirm /\ ~after.show_confirm
                    /\ after.jobs_df = EmptyFrame
                    /\ load_data(data_files', before.username) = Ok(EmptyFrame)
              /\ (~before.show_confirm /\ after.show_confirm) =>
                    /\ after.jobs_df = before.jobs_df
                    /\ data_files' = data_files]_vars

\* Clear All has been pressed and nothing else: the confirmation is pending
\* and the store still holds the session's records.
ClearAllPending ==
    /\ ConfirmDrawn("s1")
    /\ session_state["s1"].jobs_df # EmptyFrame
    /\ Loaded(session_state["s1"].username) = Ok(session_state["s1"].jobs_df)

\* The credential store as a mapping (empty while there is no file).
Credentials == IF users_file.kind = "json" THEN users_file.json ELSE <<>>

\* C5: a register attempt for a username that has a credential record,
\* whatever display name and passwords it gives, is not reported as an
\* account created and leaves every credential record as it was.
DuplicateRegistration ==
    [][\A s \in Sessions, u \in DOMAIN Credentials,
          d \in AccountInputs.display_names,
          p \in AccountInputs.passwords, c \in AccountInputs.passwords :
          RegisterSubmit(s, "atomic", u, d, p, c) =>
              /\ users_file' = users_file
              /\ created' = created
              /\ shown'[s] # "Account created! Please login."
              /\ (d # "" /\ p = c /\ Len(p) >= 4)
                     => shown'[s] = "Username already exists"]_vars

\* A well-formed registration of alice, who has a record, was refused.
DuplicateRefused ==
    /\ "alice" \in DOMAIN Credentials
    /\ \E s \in Sessions : shown[s] = "Username already exists"

\* C6: a login attempt with username u and password p leaves the session
\* logged in, as u, exactly when the credential store has a record for u
\* whose hash is hash_password(p); every other attempt, an empty username
\* or password included, is answered with an error, and leaves the session
\* anonymous.  No attempt changes the credential store.
AuthenticationExact ==
    [][\A s \in Sessions, u \in AccountInputs.usernames,
          p \in AccountInputs.login_passwords :
          LoginSubmit(s, u, p) =>
              LET accepted ==
                      /\ u \in DOMAIN Credentials
                      /\ Credentials[u].password = hash_password(p)
              IN  /\ session_state'[s].logged_in <=> accepted
                  /\ accepted => session_state'[s].username = u
                  /\ ~accepted =>
                        /\ session_state'[s] = session_state[s]
                        /\ shown'[s] \in
                               {"Invalid username or password",
                                "Please enter both username and password"}
                  /\ users_file' = users_file]_vars

\* One session is logged in as alice while the other, with a password that
\* is not hers, has been refused.
LoginAcceptedAndRefused ==
    /\ session_state["s1"].logged_in
    /\ session_state["s1"].username = "alice"
    /\ ~session_state["s2"].logged_in
    /\ shown["s2"] = "Invalid username or password"

\* What the store holds for `u`, when the file of `u` can be read at all.
StoreHolds(u, df) ==
    LET file == data_files[get_user_data_file(u)]
    IN  \/ file.kind = "absent" /\ df = EmptyFrame
        \/ file.kind = "json" /\ file.json = save_data(df)

\* C7: an add, Save Changes or confirmed Clear All that fails, by its
\* validation or by an OSError of the write in save_data, leaves the
\* snapshot and the store as they were before it: once the failed script
\* run has ended, the store holds the session's snapshot, never an older or
\* a partial collection.
AllOrNothing ==
    \A s \in Sessions :
        (Ready(s) /\ shown[s] \in {"OSError",
                                   "Please fill in Company Name and Job Title"})
            => StoreHolds(session_state[s].username, session_state[s].jobs_df)

\* C8: every account whose registration has been reported as created has
\* its record in the credential store, with the hash it registered with,
\* whatever any session has done since, registrations by a second session
\* whose load_users and save_users interleave with the first included.
CredentialsPermanent ==
    users_file.kind = "json" =>
        \A u \in DOMAIN created :
            /\ u \in DOMAIN users_file.json
            /\ users_file.json[u].password = created[u]

\* The rows the add form of a session can append.
AddRows(in) ==
    {NewRow(c, t, st, d, p) :
        c \in in.companies \ {""}, t \in in.titles \ {""},
        st \in in.statuses, d \in in.dates, p \in in.packages}

\* C9: with two sessions of one username, every save leaves in the store
\* exactly the snapshot of the session that saved, so that after two saves
\* the store is the later saver's snapshot; that snapshot comes from the
\* saver's own snapshot alone (a row appended to it, its edited view, or
\* the empty frame), never from what the other session stored; the saver
\* is shown no error and the other session is told nothing.
LastWriterWins ==
    [][data_files' # data_files =>
          \E s \in Sessions :
              LET before == session_state[s]
                  after == session_state'[s]
              IN  /\ Ready(s)
                  /\ data_files' =
                         [data_files EXCEPT
                             ![get_user_data_file(before.username)] =
                                 JsonFile(save_data(after.jobs_df))]
                  /\ after.jobs_df \in
                         {EmptyFrame}
                         \cup {Append(before.jobs_df, row) :
                                  row \in AddRows(SharedInputs)}
                         \cup data_editor(View(before), SharedInputs)
                  /\ shown'[s] = ""
                  /\ \A t \in Sessions \ {s} :
                         /\ session_state'[t] = session_state[t]
                         /\ shown'[t] = shown[t]]_vars

\* Both sessions work as alice, each has saved a row of its own into its
\* snapshot, and the store holds the snapshot of s2 alone.
Overwritten ==
    /\ Ready("s1") /\ Ready("s2")
    /\ session_state["s1"].username = "alice"
    /\ session_state["s2"].username = "alice"
    /\ Len(session_state["s1"].jobs_df) = 1
    /\ Len(session_state["s2"].jobs_df) = 1
    /\ session_state["s1"].jobs_df # session_state["s2"].jobs_df
    /\ Loaded("alice") = Ok(session_state["s2"].jobs_df)
    /\ shown["s1"] = "" /\ shown["s2"] = ""

\* C10: while a session's save_data or save_users goes through open, write
\* and close, no read of another session finds a file that is neither the
\* document from before the save nor the one after it: no script run ends
\* with json.load failing on a file being written.
AtomicPersistence ==
    \A s \in Sessions : shown[s] # "JSONDecodeError"

\* C11: the step that takes a session from logged in to logged out clears
\* its username and display name, removes the snapshot from the session,
\* and writes nothing: every data file and the credential file are as they
\* were.
LogoutFrame ==
    [][\A s \in Sessions :
          (session_state[s].logged_in /\ ~session_state'[s].logged_in) =>
              /\ session_state'[s].username = None
              /\ session_state'[s].display_name = None
              /\ ~session_state'[s].has_jobs_df
              /\ session_state'[s].jobs_df = EmptyFrame
              /\ data_files' = data_files
              /\ users_file' = users_file
              /\ persisted' = persisted]_vars

\* A session that stored records as alice has logged out.
LoggedOutWithRecords ==
    /\ ~session_state["s1"].logged_in
    /\ session_state["s1"].current_user = "alice"
    /\ session_state["s1"].username = None
    /\ Loaded("alice").err = "" /\ Loaded("alice").value # EmptyFrame

\* C12: a logged-in session has the username of a credential record, under
\* the display name of that record; a step that changes a data file is
\* taken by a logged-in session; and a step of a session that is and
\* stays anonymous (a register attempt, a refused login) changes neither
\* its snapshot, its filter or its pending confirmation nor any collection:
\* add, Save Changes, Clear All and Refresh act only in a logged-in session.
MutationsRequireLogin ==
    [][/\ \A s \in Sessions :
             session_state'[s].logged_in =>
                 /\ session_state'[s].username \in DOMAIN Credentials'
                 /\ session_state'[s].display_name =
                        Credentials'[session_state'[s].username].display_name
       /\ data_files' # data_files =>
             \E s \in Sessions :
                 /\ session_state[s].logged_in
                 /\ session_state'[s].logged_in
                 /\ session_state'[s] # session_state[s] \/ shown'[s] # shown[s]
       /\ \A s \in Sessions :
             (~session_state[s].logged_in /\ ~session_state'[s].logged_in)
                 => session_state'[s] = session_state[s]
       /\ (\A s \in Sessions : ~session_state[s].logged_in)
             => data_files' = data_files /\ persisted' = persisted]_vars

\* An anonymous session has been refused a registration while alice's
\* collection holds records.
AnonymousWithStore ==
    /\ ~session_state["s1"].logged_in
    /\ shown["s1"] = "Username already exists"
    /\ Loaded("alice").err = "" /\ Loaded("alice").value # EmptyFrame

\* The number of rows of df whose status is one of `statuses`.
CountStatus(df, statuses) ==
    Cardinality({i \in DOMAIN df : df[i].Status \in statuses})

\* C13: whatever the search text and the status filter, the four counters
\* drawn are those of the whole snapshot, and a step that changes the
\* search text or the status filter of a logged-in session changes neither
\* its snapshot nor any stored collection.
CountersIgnoreFilter ==
    [][\A s \in Sessions :
          LET before == session_state[s]
              after == session_state'[s]
          IN  /\ after.logged_in =>
                    Metrics(after) =
                        <<Len(after.jobs_df),
                          CountStatus(after.jobs_df,
                                      {"Interview Scheduled", "Interview Done"}),
                          CountStatus(after.jobs_df, {"Offer Received"}),
                          CountStatus(after.jobs_df, {"Applied"})>>
              /\ (/\ before.logged_in /\ after.logged_in
                  /\ <<after.search_query, after.status_filter>> #
                         <<before.search_query, before.status_filter>>)
                     => /\ after.jobs_df = before.jobs_df
                        /\ data_files' = data_files]_vars

\* The filter hides a record that the counters still count.
FilterHidesCounted ==
    /\ Ready("s1")
    /\ session_state["s1"].status_filter = "Offer Received"
    /\ Len(session_state["s1"].jobs_df) = 2
    /\ Len(View(session_state["s1"])) = 1
    /\ Metrics(session_state["s1"]) = <<2, 1, 1, 0>>

\* Whether every row of df has one of the six statuses and a company name
\* and a job title that are not empty.
WellFormed(df) ==
    \A i \in DOMAIN df :
        /\ df[i].Status \in {"Applied", "Interview Scheduled", "Interview Done",
                             "Offer Received", "Rejected", "Withdrawn"}
        /\ df[i].Company_Name # ""
        /\ df[i].Job_Title # ""

CounterDefinitions ==
    \A s \in Sessions :
        Ready(s) =>
            LET df == session_state[s].jobs_df
                m == Metrics(session_state[s])
            IN  /\ m[1] = Len(df)
                /\ m[2] = Cardinality({i \in DOMAIN df :
                              \/ df[i].Status = "Interview Scheduled"
                              \/ df[i].Status = "Interview Done"})
                /\ m[3] = Cardinality({i \in DOMAIN df :
                              df[i].Status = "Offer Received"})
                /\ m[4] = Cardinality({i \in DOMAIN df :
                              df[i].Status = "Applied"})
                /\ m[2] + m[3] + m[4] <= m[1]
                /\ (Len(df) = 1 /\ df[1].Status = "Applied")
                       => m = <<1, 0, 0, 1>>
                /\ (Len(df) = 1 /\ df[1].Status = "Interview Scheduled")
                       => m = <<1, 1, 0, 0>>

\* The one record stored has the status Interview Scheduled and the
\* counters drawn are (1, 1, 0, 0).
OneInterview ==
    /\ Ready("s1")
    /\ Len(session_state["s1"].jobs_df) = 1
    /\ session_state["s1"].jobs_df[1].Status = "Interview Scheduled"
    /\ Loaded("alice") = Ok(session_state["s1"].jobs_df)
    /\ Metrics(session_state["s1"]) = <<1, 1, 0, 0>>

\* Whether `text` has `s` as a substring, letters compared ignoring case.
ContainsIgnoringCase(text, s) ==
    \E i \in 1..(Len(text) - Len(s) + 1) :
        \A k \in 1..Len(s) :
            casefold(Char(text, i + k - 1)) = casefold(Char(s, k))

\* C16: the table the editor is given is the subsequence of the snapshot,
\* in its order, of the records for which the search text is empty or is
\* contained, ignoring case, in the company name or the job title, and for
\* which the status filter is All or equals the record's status.
FilterSemantics ==
    \A s \in Sessions :
        Ready(s) =>
            LET ss == session_state[s]
                Kept(row) ==
                    /\ \/ ss.search_query = ""
                       \/ ContainsIgnoringCase(row.Company_Name, ss.search_query)
                       \/ ContainsIgnoringCase(row.Job_Title, ss.search_query)
                    /\ \/ ss.status_filter = "All"
                       \/ row.Status = ss.status_filter
            IN  View(ss) = SelectSeq(ss.jobs_df, Kept)

\* C17: an add submitted with a company name and a job title that are not
\* empty leaves as snapshot the old snapshot with the new record appended
\* last, whatever the filter, and a store from which load_data returns that
\* snapshot; an add with either empty changes neither snapshot nor store.
AddAppends ==
    [][\A s \in Sessions, c \in TrackerInputs.companies,
          t \in TrackerInputs.titles, st \in TrackerInputs.statuses,
          d \in TrackerInputs.dates, p \in TrackerInputs.packages :
          AddSubmit(s, "atomic", c, t, st, d, p) =>
              LET before == session_state[s]
                  after == session_state'[s]
              IN  IF c # "" /\ t # ""
                  THEN /\ after.jobs_df =
                              Append(before.jobs_df, NewRow(c, t, st, d, p))
                       /\ load_data(data_files', before.username)
                              = Ok(after.jobs_df)
                  ELSE /\ after.jobs_df = before.jobs_df
                       /\ data_files' = data_files]_vars

\* C18: Save Changes pressed with nothing edited in the editor, under any
\* search text and status filter, leaves the snapshot and every stored
\* collection as they were: the records the filter hides are kept.
SaveKeepsHidden ==
    [][\A s \in Sessions :
          SaveChangesWith(s, "atomic", View(session_state[s])) =>
              /\ session_state'[s].jobs_df = session_state[s].jobs_df
              /\ data_files' = data_files]_vars

\* C19: with one session and no failing write, whenever the page of the
\* logged-in user is drawn (after login and the initial load, add, Save
\* Changes, Clear All and its confirmation or Cancel, Refresh), load_data
\* on the store returns the session's snapshot, so that Refresh would leave
\* the snapshot as it is.
SnapshotStoreAgree ==
    \A s \in Sessions :
        Ready(s) =>
            Loaded(session_state[s].username) = Ok(session_state[s].jobs_df)

\* C20: a Clear All request does not outlive the login it was made in: at
\* the end of the step that logs a session in, "Yes, Delete All" is not
\* offered, since no Clear All has been pressed since that login.
ConfirmationBound ==
    [][\A s \in Sessions :
          (~session_state[s].logged_in /\ session_state'[s].logged_in)
              => ~ConfirmDrawn(s)']_vars
====
